---- MODULE Spec2Model ----
(***************************************************************************)
(* Model of the UNESCO course-sync endpoint                                *)
(* (sites/unesco/src/backend/unesco/courses_api/api.py):                   *)
(* create_courses_from_request authenticates a request against the         *)
(* configured shared secrets and calls create_course, which validates the  *)
(* payload, looks up the courses root page and the organization, and then  *)
(* writes a page, a course, a page role, an organization plugin and the    *)
(* organization's permissions, one store operation after the other, with   *)
(* no transaction around them.                                             *)
(*                                                                         *)
(* Strings are sequences of characters. A signature is the record          *)
(* [scheme, key, msg]: a keyed digest is modelled as a value that two      *)
(* (secret, message) pairs share only when they are the same pair.         *)
(***************************************************************************)
EXTENDS FiniteSets, Integers, Sequences, TLC

VARIABLES secrets, templateSlots, pages, organizations, courses, pageRoles,
          plugins, permissions, calls

vars == <<secrets, templateSlots, pages, organizations, courses, pageRoles,
          plugins, permissions, calls>>

store == <<pages, organizations, courses, pageRoles, plugins, permissions>>

(* ------------------------------ bounds --------------------------------- *)

\* Number of sync calls, whose store operations may interleave.
MaxCalls == 2

\* Longest configured list of secrets.
MaxSecrets == 2

Calls == 1..MaxCalls

(* ------------------------------ strings -------------------------------- *)

\* str.upper() on one character.
UpperChar(ch) ==
    CASE ch = "o" -> "O"
      [] ch = "c" -> "C"
      [] ch = "t" -> "T"
      [] OTHER -> ch

UpperIdentity(s) == s

\* organization_code.upper()
Upper(s) == [i \in DOMAIN s |-> UpperChar(s[i])]

(* ------------------------------ requests ------------------------------- *)

\* The keys create_course reads from the payload.
RequiredKeys == {"course_code", "course_title", "organization_code"}

CourseCodes == {<<>>, <<"c">>}
CourseTitles == {<<>>, <<"t">>}
OrganizationCodes == {<<>>, <<"o">>, <<"O">>}

FieldValues(k) ==
    CASE k = "course_code" -> CourseCodes
      [] k = "course_title" -> CourseTitles
      [] k = "organization_code" -> OrganizationCodes

\* Payloads with every required key, each holding a string (possibly empty).
CompletePayloads == {d \in [RequiredKeys -> CourseCodes \cup CourseTitles \cup OrganizationCodes] :
                        \A k \in RequiredKeys : d[k] \in FieldValues(k)}

DefaultValue(k) ==
    CASE k = "course_code" -> <<"c">>
      [] k = "course_title" -> <<"t">>
      [] k = "organization_code" -> <<"o">>

\* Payloads lacking a non-empty subset of the required keys.
IncompletePayloads == {[k \in K |-> DefaultValue(k)] : K \in (SUBSET RequiredKeys) \ {RequiredKeys}}

Payloads == CompletePayloads \cup IncompletePayloads

SamplePayload == [k \in RequiredKeys |-> DefaultValue(k)]
OtherPayload == [k \in {"course_code"} |-> <<"c">>]

\* Secrets a client may hold; the configured ones are drawn from 1..MaxSecrets.
ClientSecrets == 1..(MaxSecrets + 1)

\* richie.apps.courses.utils.get_signature(message, secret)
get_signature(message, secret) ==
    [scheme |-> "SIG-HMAC-SHA256", key |-> secret, msg |-> message]

EmptyString == [scheme |-> "", key |-> 0, msg |-> [k \in {} |-> <<>>]]
Garbage == [scheme |-> "Bearer", key |-> 0, msg |-> [k \in {} |-> <<>>]]

\* request.headers.get("Authorization"): None when the header is absent.
NoHeader == [present |-> FALSE, value |-> EmptyString]
Header(v) == [present |-> TRUE, value |-> v]

Request(h, b) == [header |-> h, body |-> b]

\* Requests of the sync specification: every payload under a valid signature,
\* and the unauthenticated shapes.
SyncRequests ==
    {Request(Header(get_signature(b, 1)), b) : b \in Payloads}
    \cup {Request(h, SamplePayload) : h \in {NoHeader, Header(EmptyString), Header(Garbage)}}

\* Requests of the authentication specification: every header shape over two
\* payloads, signatures included that were made over the other payload or
\* with a secret that may not be configured.
AuthRequests ==
    {Request(h, b) : h \in {NoHeader, Header(EmptyString), Header(Garbage)}
                          \cup {Header(get_signature(m, s)) :
                                  m \in {SamplePayload, OtherPayload}, s \in ClientSecrets},
                     b \in {SamplePayload, OtherPayload}}

(* --------------------------- authentication ---------------------------- *)

HeaderIsNone(h) == ~h.present

HeaderIsEmptyString(h) == h.present /\ h.value = EmptyString

\* `not authorization_header`: None and the empty string are both falsy.
HeaderMissing(h) == ~h.present \/ h.value = EmptyString

FirstSecretOnly(h, message, ss) ==
    Len(ss) > 0 /\ h.value = get_signature(message, ss[1])

\* any(authorization_header == get_signature(message, secret) for secret in ...)
SignatureIsValid(h, message, ss) ==
    \E i \in 1..Len(ss) : h.value = get_signature(message, ss[i])

\* Number of secrets any() compares before it stops: it stops at the first match.
Compared(h, message, ss) ==
    IF SignatureIsValid(h, message, ss)
    THEN CHOOSE i \in 1..Len(ss) :
            /\ h.value = get_signature(message, ss[i])
            /\ \A j \in 1..(i - 1) : h.value # get_signature(message, ss[j])
    ELSE Len(ss)

(* ----------------------------- validation ------------------------------ *)

HasNonEmptyValues(data) ==
    /\ RequiredKeys \subseteq DOMAIN data
    /\ \A k \in RequiredKeys : data[k] # <<>>

\* The try block of create_course: a KeyError on any of the three keys.
HasRequiredKeys(data) == RequiredKeys \subseteq DOMAIN data

\* The ValidationError detail of create_course, as the words of its message.
ValidationDetail ==
    [input_data |-> <<"You must pass", "course_code", ",", "course_title",
                      "and", "organization_code", ".">>]

CatchesEverything(fault) == TRUE

CatchesNothing(fault) == FALSE

\* except ValidationError: the only exception the endpoint handles.
Caught(fault) == fault = "ValidationError"

(* ------------------------------- store --------------------------------- *)

\* Model.objects.get(...): exactly one match, or a fault.
ObjectsGet(matches) ==
    IF Cardinality(matches) = 1
    THEN [fault |-> "None", obj |-> CHOOSE m \in matches : TRUE]
    ELSE IF matches = {}
         THEN [fault |-> "DoesNotExist", obj |-> [id |-> 0]]
         ELSE [fault |-> "MultipleObjectsReturned", obj |-> [id |-> 0]]

\* Page.objects.get(reverse_id="courses", publisher_is_draft=True)
GetCoursesPage ==
    ObjectsGet({p \in pages : p.reverse_id = "courses" /\ p.publisher_is_draft})

\* Organization.objects.get(code=organization_code.upper())
GetOrganization(organization_code) ==
    ObjectsGet({o \in organizations : o.code = Upper(organization_code)})

\* Page.objects.get(organization=org_obj.id, publisher_is_draft=True)
GetOrganizationPage(org_id) ==
    ObjectsGet({p \in pages : p.organization = org_id /\ p.publisher_is_draft})

\* The primary key the store gives the next page.
NewPageId == 1 + (CHOOSE n \in {p.id : p \in pages} : \A p \in pages : p.id <= n)

PageRecord(id, title, parent, reverse_id, draft, organization, slots) ==
    [id |-> id, title |-> title, parent |-> parent, reverse_id |-> reverse_id,
     publisher_is_draft |-> draft, in_navigation |-> FALSE,
     organization |-> organization, placeholders |-> slots]

\* The rows of the calls table.
NoCall ==
    [pc |-> "idle", header |-> NoHeader, body |-> [k \in {} |-> <<>>],
     status |-> 0, text |-> "", result |-> [k \in {} |-> <<>>], fault |-> "None",
     compared |-> 0, invoked |-> FALSE, lookups |-> 0, writes |-> 0,
     code |-> <<>>, title |-> <<>>, courses_page |-> 0, org_obj |-> 0,
     organization_page |-> 0, page_obj |-> 0]

(* --------------------------- configuration ----------------------------- *)

\* Every list of at most MaxSecrets secrets: RICHIE_COURSE_RUN_SYNC_SECRETS.
SecretLists == UNION {[1..n -> 1..MaxSecrets] : n \in 0..MaxSecrets}

\* The slots a Course page template declares besides course_organizations.
OtherSlots == {"course_description"}

CoursesPagePublic == PageRecord(1, <<"C">>, 0, "courses", FALSE, 0, {})
CoursesPageDraft == PageRecord(2, <<"C">>, 0, "courses", TRUE, 0, {})

\* An organization is the extension of one page, draft or public; a published
\* organization has both, under the same code.
OrganizationDraft == [id |-> 1, code |-> <<"O">>]
OrganizationPublic == [id |-> 2, code |-> <<"O">>]
OrganizationPageOf(o) ==
    PageRecord(2 + o.id, <<"O">>, 0, "None", o = OrganizationDraft, o.id, {})

\* The store before any sync call: the CMS content is whatever the site holds.
Init ==
    /\ secrets = <<1>>
    /\ templateSlots \in {OtherSlots, OtherSlots \cup {"course_organizations"}}
    /\ organizations \in SUBSET {OrganizationDraft, OrganizationPublic}
    /\ \E draft \in SUBSET {CoursesPageDraft} :
          pages = {CoursesPagePublic} \cup draft
                    \cup {OrganizationPageOf(o) : o \in organizations}
    /\ courses = {}
    /\ pageRoles = {}
    /\ plugins = {}
    /\ permissions = {}
    /\ calls = [c \in Calls |-> NoCall]

\* A site with its courses page and one draft organization, under every
\* configuration of the secrets.
InitAuth ==
    /\ secrets \in SecretLists
    /\ templateSlots = OtherSlots \cup {"course_organizations"}
    /\ organizations = {OrganizationDraft}
    /\ pages = {CoursesPagePublic, CoursesPageDraft, OrganizationPageOf(OrganizationDraft)}
    /\ courses = {}
    /\ pageRoles = {}
    /\ plugins = {}
    /\ permissions = {}
    /\ calls = [c \in Calls |-> NoCall]

(* ------------------------------ endpoint ------------------------------- *)

StepOrderPermissionsFirst ==
    <<"create_page", "create_course", "create_page_role", "create_permissions", "add_plugin">>

\* The writes of create_course, in the order of its statements.
StepOrder ==
    <<"create_page", "create_course", "create_page_role", "add_plugin", "create_permissions">>

StepIndex(s) == CHOOSE i \in 1..Len(StepOrder) : StepOrder[i] = s

\* An exception leaves create_course: the endpoint turns a caught one into a
\* 400 with the serialized detail, any other one propagates (a 500).
Raise(rec, fault) ==
    IF Caught(fault)
    THEN [rec EXCEPT !.pc = "done", !.fault = fault, !.status = 400,
                     !.result = [error |-> IF fault = "ValidationError"
                                           THEN ValidationDetail
                                           ELSE [non_field_errors |-> <<fault>>]]]
    ELSE [rec EXCEPT !.pc = "done", !.fault = fault, !.status = 500]

\* A write succeeded: on to the next statement, or back in the endpoint with
\* status 200 and the empty result.
Advance(rec, step) ==
    IF StepIndex(step) < Len(StepOrder)
    THEN [rec EXCEPT !.pc = StepOrder[StepIndex(step) + 1], !.writes = @ + 1]
    ELSE [rec EXCEPT !.pc = "done", !.writes = @ + 1, !.status = 200]

\* Lines 58-60: the three lookups, each reached only if the one before found
\* its object. They read pages and organizations no sync call writes.
Lookups(rec, data) ==
    LET cp == GetCoursesPage
        org == GetOrganization(data["organization_code"])
        op == GetOrganizationPage(org.obj.id)
        locals == [rec EXCEPT !.code = data["course_code"], !.title = data["course_title"]]
    IN  IF cp.fault # "None" THEN Raise([locals EXCEPT !.lookups = 1], cp.fault)
        ELSE IF org.fault # "None"
             THEN Raise([locals EXCEPT !.lookups = 2, !.courses_page = cp.obj.id], org.fault)
        ELSE IF op.fault # "None"
             THEN Raise([locals EXCEPT !.lookups = 3, !.courses_page = cp.obj.id,
                                       !.org_obj = org.obj.id], op.fault)
        ELSE [locals EXCEPT !.lookups = 3, !.courses_page = cp.obj.id,
                            !.org_obj = org.obj.id, !.organization_page = op.obj.id,
                            !.pc = StepOrder[1]]

\* create_course up to its first write: the required keys, then the lookups.
CreateCourseBegin(rec, data) ==
    IF ~HasRequiredKeys(data)
    THEN Raise([rec EXCEPT !.invoked = TRUE], "ValidationError")
    ELSE Lookups([rec EXCEPT !.invoked = TRUE], data)

\* create_courses_from_request, lines 114-132, on the request req.
Handle(req) ==
    LET rec == [NoCall EXCEPT !.header = req.header, !.body = req.body]
    IN  IF HeaderMissing(req.header)
        THEN [rec EXCEPT !.pc = "done", !.status = 403, !.text = "Missing authentication."]
        ELSE IF ~SignatureIsValid(req.header, req.body, secrets)
             THEN [rec EXCEPT !.pc = "done", !.status = 401,
                              !.text = "Invalid authentication.",
                              !.compared = Compared(req.header, req.body, secrets)]
        ELSE CreateCourseBegin(
                [rec EXCEPT !.compared = Compared(req.header, req.body, secrets)], req.body)

\* A sync request arrives and runs up to its first write or to its response.
\* Calls are numbered in the order of their arrival.
Receive(c, requests) ==
    /\ calls[c].pc = "idle"
    /\ c > 1 => calls[c - 1].pc # "idle"
    /\ \E req \in requests : calls' = [calls EXCEPT ![c] = Handle(req)]
    /\ UNCHANGED <<secrets, templateSlots, store>>

\* create_i18n_page(title, in_navigation=False, parent=courses_page,
\* reverse_id=None, template=Course.PAGE["template"])
CreatePage(c) ==
    /\ calls[c].pc = "create_page"
    /\ pages' = pages \cup {PageRecord(NewPageId, calls[c].title, calls[c].courses_page,
                                       "None", TRUE, 0, templateSlots)}
    /\ calls' = [calls EXCEPT ![c] = Advance([calls[c] EXCEPT !.page_obj = NewPageId],
                                             "create_page")]
    /\ UNCHANGED <<secrets, templateSlots, organizations, courses, pageRoles, plugins,
                   permissions>>

GetOrCreateNeverRejects(code) == FALSE

\* Course.objects.create under the store's uniqueness constraint on the
\* course code: a second course with a code is rejected.
CreateRejects(code) == \E k \in courses : k.code = code

\* Course.objects.create(extended_object=page_obj, code=code)
CourseRow(page, code) == [extended_object |-> page, code |-> code]

CreateCourse(c) ==
    /\ calls[c].pc = "create_course"
    /\ IF CreateRejects(calls[c].code)
       THEN /\ calls' = [calls EXCEPT ![c] = Raise(calls[c], "UniquenessViolation")]
            /\ UNCHANGED courses
       ELSE /\ courses' = courses \cup {CourseRow(calls[c].page_obj, calls[c].code)}
            /\ calls' = [calls EXCEPT ![c] = Advance(calls[c], "create_course")]
    /\ UNCHANGED <<secrets, templateSlots, pages, organizations, pageRoles, plugins,
                   permissions>>

\* course_obj.create_page_role()
CreatePageRole(c) ==
    /\ calls[c].pc = "create_page_role"
    /\ pageRoles' = pageRoles \cup {calls[c].page_obj}
    /\ calls' = [calls EXCEPT ![c] = Advance(calls[c], "create_page_role")]
    /\ UNCHANGED <<secrets, templateSlots, pages, organizations, courses, plugins,
                   permissions>>

\* placeholders.get(slot="course_organizations"), then add_plugin(...)
AddPlugin(c) ==
    /\ calls[c].pc = "add_plugin"
    /\ LET placeholder == ObjectsGet({<<p.id, s>> : p \in {q \in pages : q.id = calls[c].page_obj},
                                                    s \in templateSlots \cap {"course_organizations"}})
       IN  IF placeholder.fault # "None"
           THEN /\ calls' = [calls EXCEPT ![c] = Raise(calls[c], placeholder.fault)]
                /\ UNCHANGED plugins
           ELSE /\ plugins' = plugins \cup
                        {[placeholder |-> <<calls[c].page_obj, "course_organizations">>,
                          plugin_type |-> "OrganizationPlugin",
                          page |-> calls[c].organization_page]}
                /\ calls' = [calls EXCEPT ![c] = Advance(calls[c], "add_plugin")]
    /\ UNCHANGED <<secrets, templateSlots, pages, organizations, courses, pageRoles,
                   permissions>>

\* course_obj.create_permissions_for_organization(org_obj)
CreatePermissions(c) ==
    /\ calls[c].pc = "create_permissions"
    /\ permissions' = permissions \cup
            {[course |-> calls[c].page_obj, organization |-> calls[c].org_obj]}
    /\ calls' = [calls EXCEPT ![c] = Advance(calls[c], "create_permissions")]
    /\ UNCHANGED <<secrets, templateSlots, pages, organizations, courses, pageRoles,
                   plugins>>

Write(c) ==
    \/ CreatePage(c)
    \/ CreateCourse(c)
    \/ CreatePageRole(c)
    \/ AddPlugin(c)
    \/ CreatePermissions(c)

Next == \E c \in Calls : Receive(c, SyncRequests) \/ Write(c)

NextAuth == \E c \in Calls : Receive(c, AuthRequests) \/ Write(c)

Spec == Init /\ [][Next]_vars

SpecAuth == InitAuth /\ [][NextAuth]_vars

(* ------------------------------- claims -------------------------------- *)

Started(c) == calls[c].pc # "idle"

Finished(c) == calls[c].pc = "done"

\* The header of call c is the signature of its body under a configured secret.
Authenticated(c) ==
    /\ calls[c].header.present
    /\ \E i \in 1..Len(secrets) :
          calls[c].header.value = get_signature(calls[c].body, secrets[i])

Complete(c) == RequiredKeys \subseteq DOMAIN calls[c].body

\* Call c has written nothing to the store.
WroteNothing(c) ==
    /\ calls[c].writes = 0
    /\ calls[c].page_obj = 0

Words(message) == {message[i] : i \in DOMAIN message}

\* C1: a request with a non-empty Authorization header reaches create_course
\* if and only if the header is the signature of the body under some
\* configured secret, at any position of the list; otherwise it is answered
\* 401 "Invalid authentication." without create_course and without a write.
C1_SignatureDecides ==
    \A c \in Calls :
        (Started(c) /\ calls[c].header.present /\ calls[c].header.value # EmptyString)
        => /\ calls[c].invoked <=> Authenticated(c)
           /\ ~Authenticated(c) =>
                /\ Finished(c)
                /\ calls[c].status = 401
                /\ calls[c].text = "Invalid authentication."
                /\ calls[c].lookups = 0
                /\ WroteNothing(c)

\* A call accepted on the second of two different secrets, and a call whose
\* header was signed with a secret that is not configured, rejected.
C1_Witness ==
    /\ Len(secrets) = 2
    /\ secrets[1] # secrets[2]
    /\ \E c \in Calls :
          /\ calls[c].invoked
          /\ calls[c].header.value = get_signature(calls[c].body, secrets[2])
    /\ \E c \in Calls :
          /\ calls[c].status = 401
          /\ calls[c].header.value.scheme = "SIG-HMAC-SHA256"
          /\ calls[c].header.value.msg = calls[c].body

\* C2: a request without an Authorization header is answered 403 "Missing
\* authentication.", whatever the body and the secrets: no secret is
\* compared, create_course is not invoked and nothing is written.
C2_MissingHeaderForbidden ==
    \A c \in Calls :
        (Started(c) /\ ~calls[c].header.present)
        => /\ Finished(c)
           /\ calls[c].status = 403
           /\ calls[c].status # 401
           /\ calls[c].text = "Missing authentication."
           /\ calls[c].compared = 0
           /\ ~calls[c].invoked
           /\ WroteNothing(c)

\* A header-less request answered while two secrets are configured.
C2_Witness ==
    /\ Len(secrets) = 2
    /\ \E c \in Calls : Finished(c) /\ ~calls[c].header.present /\ calls[c].status = 403

\* C3: an authenticated request whose payload lacks any of the three keys is
\* answered 400 with {"error": detail}; the detail is one composite message
\* naming the three fields, and no lookup or write was made.
C3_MissingKeysRejected ==
    \A c \in Calls :
        (Started(c) /\ Authenticated(c) /\ ~Complete(c))
        => /\ Finished(c)
           /\ calls[c].fault = "ValidationError"
           /\ calls[c].status = 400
           /\ DOMAIN calls[c].result = {"error"}
           /\ DOMAIN calls[c].result.error = {"input_data"}
           /\ RequiredKeys \subseteq Words(calls[c].result.error.input_data)
           /\ calls[c].lookups = 0
           /\ WroteNothing(c)

\* A payload that lacks course_title only, rejected.
C3_Witness ==
    \E c \in Calls :
        /\ Authenticated(c)
        /\ DOMAIN calls[c].body = {"course_code", "organization_code"}
        /\ calls[c].status = 400

DraftCoursesPages == {p \in pages : p.reverse_id = "courses" /\ p.publisher_is_draft}

\* The organizations stored under the code that a, uppercased, spells.
StoredUnder(a) ==
    {o \in organizations :
        /\ Len(o.code) = Len(a)
        /\ \A i \in 1..Len(a) : o.code[i] = UpperChar(a[i])}

DraftPagesOf(o) == {p \in pages : p.organization = o.id /\ p.publisher_is_draft}

\* What a successful call leaves in the store.
Created(c) ==
    \E p \in pages, root \in DraftCoursesPages, o \in StoredUnder(calls[c].body["organization_code"]) :
        /\ p.id = calls[c].page_obj
        /\ p.parent = root.id
        /\ p.title = calls[c].body["course_title"]
        /\ ~p.in_navigation
        /\ [extended_object |-> p.id, code |-> calls[c].body["course_code"]] \in courses
        /\ \E g \in plugins :
              /\ g.placeholder = <<p.id, "course_organizations">>
              /\ g.plugin_type = "OrganizationPlugin"
              /\ \E op \in DraftPagesOf(o) : g.page = op.id
        /\ [course |-> p.id, organization |-> o.id] \in permissions

\* C4 as stated: with the draft courses page and an organization under the
\* uppercased code, a complete authenticated request ends in 200 {} with
\* the page, the course, the plugin and the permissions in the store.
C4_AsStated ==
    \A c \in Calls :
        (/\ Finished(c) /\ Authenticated(c) /\ Complete(c)
         /\ DraftCoursesPages # {}
         /\ StoredUnder(calls[c].body["organization_code"]) # {})
        => /\ calls[c].status = 200
           /\ DOMAIN calls[c].result = {}
           /\ Created(c)

\* C4, amended: the same, when moreover the courses page and the
\* organization are the only ones of their kind, the organization has a
\* draft page, the template declares the course_organizations slot and no
\* course bound to another page holds the course code.
C4_CourseCreated ==
    \A c \in Calls :
        (/\ Finished(c) /\ Authenticated(c) /\ Complete(c)
         /\ Cardinality(DraftCoursesPages) = 1
         /\ Cardinality(StoredUnder(calls[c].body["organization_code"])) = 1
         /\ \A o \in StoredUnder(calls[c].body["organization_code"]) :
               Cardinality(DraftPagesOf(o)) = 1
         /\ "course_organizations" \in templateSlots
         /\ ~\E k \in courses : /\ k.code = calls[c].body["course_code"]
                                /\ k.extended_object # calls[c].page_obj)
        => /\ calls[c].status = 200
           /\ DOMAIN calls[c].result = {}
           /\ Created(c)

\* The lowercase organization code "o" matched the stored "O", and the course
\* keeps its lowercase code.
C4_Witness ==
    \E c \in Calls :
        /\ calls[c].status = 200
        /\ calls[c].body["organization_code"] = <<"o">>
        /\ [extended_object |-> calls[c].page_obj, code |-> <<"c">>] \in courses

\* C5: a complete authenticated request that finds no draft courses page, no
\* organization under the uppercased code or no draft page of the
\* organization ends in an unhandled lookup fault, not in a 400 or a 200,
\* and the store is as it was: the lookups come before the first write.
C5_LookupFaultPropagates ==
    \A c \in Calls :
        (/\ Started(c) /\ Authenticated(c) /\ Complete(c)
         /\ \/ DraftCoursesPages = {}
            \/ StoredUnder(calls[c].body["organization_code"]) = {}
            \/ \E o \in StoredUnder(calls[c].body["organization_code"]) : DraftPagesOf(o) = {})
        => /\ Finished(c)
           /\ calls[c].fault \in {"DoesNotExist", "MultipleObjectsReturned"}
           /\ calls[c].status \notin {200, 400}
           /\ calls[c].status = 500
           /\ calls[c].lookups \in 1..3
           /\ WroteNothing(c)

\* The courses page exists and the organization code is unknown: the fault
\* is raised by the second lookup.
C5_Witness ==
    \E c \in Calls :
        /\ Finished(c) /\ Authenticated(c) /\ Complete(c)
        /\ DraftCoursesPages # {}
        /\ StoredUnder(calls[c].body["organization_code"]) = {}
        /\ calls[c].fault = "DoesNotExist"
        /\ calls[c].lookups = 2

\* C6: of the sync calls that carry one course code, in any interleaving, at
\* most one ends in 200 and at most one course holds the code; a call that
\* reaches the course creation after another has created the course fails
\* at the uniqueness constraint.
C6_OneCoursePerCode ==
    /\ \A code \in CourseCodes : Cardinality({k \in courses : k.code = code}) <= 1
    /\ \A c1, c2 \in Calls :
          (/\ c1 # c2
           /\ Authenticated(c1) /\ Complete(c1) /\ Authenticated(c2) /\ Complete(c2)
           /\ calls[c1].body["course_code"] = calls[c2].body["course_code"])
          => /\ ~(calls[c1].status = 200 /\ calls[c2].status = 200)
             /\ (Finished(c1) /\ Finished(c2) /\ calls[c1].status = 200 /\ calls[c2].page_obj # 0)
                => /\ calls[c2].fault = "UniquenessViolation"
                   /\ calls[c2].status = 500

\* Two calls with the code "c": one answered 200, the other rejected by the store.
C6_Witness ==
    \E c1, c2 \in Calls :
        /\ Complete(c1) /\ Complete(c2)
        /\ calls[c1].body["course_code"] = <<"c">>
        /\ calls[c2].body["course_code"] = <<"c">>
        /\ calls[c1].status = 200
        /\ calls[c2].fault = "UniquenessViolation"

\* C7: once every call has terminated, each page created under the courses
\* page has exactly one course bound to it.
C7_PageHasCourse ==
    (\A c \in Calls : Finished(c))
    => \A p \in pages :
          p.parent # 0 => Cardinality({k \in courses : k.extended_object = p.id}) = 1

\* C8: the writes come in the order page, course, page role, organization
\* plugin, permissions, each only after the ones before it: a permission
\* exists only for a course whose placeholder holds the plugin, and none
\* is granted when the template has no course_organizations slot.
C8_WritesInOrder ==
    /\ \A m \in permissions :
          \E g \in plugins : g.placeholder = <<m.course, "course_organizations">>
    /\ \A g \in plugins : g.placeholder[1] \in pageRoles
    /\ \A r \in pageRoles : \E k \in courses : k.extended_object = r
    /\ \A k \in courses : \E p \in pages : p.id = k.extended_object /\ p.parent # 0
    /\ "course_organizations" \notin templateSlots
          => /\ permissions = {}
             /\ plugins = {}
             /\ \A c \in Calls : calls[c].status # 200

\* The plugin is attached and the permissions are not yet granted.
C8_Witness ==
    \E c \in Calls :
        /\ calls[c].pc = "create_permissions"
        /\ \E g \in plugins : g.placeholder = <<calls[c].page_obj, "course_organizations">>
        /\ ~\E m \in permissions : m.course = calls[c].page_obj

HasEmptyField(c) == \E k \in RequiredKeys : calls[c].body[k] = <<>>

\* C9 as stated: a payload with the three keys, one of them holding the
\* empty string, is rejected with 400 and nothing is written.
C9_AsStated ==
    \A c \in Calls :
        (Finished(c) /\ Authenticated(c) /\ Complete(c) /\ HasEmptyField(c))
        => /\ calls[c].status = 400
           /\ WroteNothing(c)

\* C9, amended: create_course requires the three keys to be present, not
\* their values to be non-empty: an authenticated request is answered 400
\* exactly when a key is missing, and a payload with the three keys, empty
\* strings included, goes on to the lookups.
C9_OnlyMissingKeysRejected ==
    \A c \in Calls :
        (Started(c) /\ Authenticated(c))
        => /\ calls[c].status = 400 <=> ~Complete(c)
           /\ Complete(c) => /\ calls[c].fault # "ValidationError"
                             /\ calls[c].lookups >= 1

\* A course created from a payload with an empty title.
C9_Witness ==
    \E c \in Calls :
        /\ Complete(c)
        /\ calls[c].body["course_title"] = <<>>
        /\ calls[c].status = 200
        /\ \E p \in pages : p.id = calls[c].page_obj /\ p.title = <<>>

NoSecretMatches(c) ==
    ~\E i \in 1..Len(secrets) :
        calls[c].header.value = get_signature(calls[c].body, secrets[i])

\* C10 as stated: a request whose header is present, the empty string
\* included, and matches no secret is answered 401; 403 only when the
\* header is absent.
C10_AsStated ==
    \A c \in Calls :
        Started(c)
        => /\ (calls[c].header.present /\ NoSecretMatches(c)) => calls[c].status = 401
           /\ calls[c].status = 403 => ~calls[c].header.present

\* C10, amended: a request whose header is present and not empty and
\* matches no secret is answered 401, never 403; 403 is the answer exactly
\* when the header is absent or is the empty string.
C10_EmptyHeaderIsMissing ==
    \A c \in Calls :
        Started(c)
        => /\ (/\ calls[c].header.present
               /\ calls[c].header.value # EmptyString
               /\ NoSecretMatches(c))
              => /\ calls[c].status = 401
                 /\ calls[c].text = "Invalid authentication."
           /\ calls[c].status = 403
                <=> (~calls[c].header.present \/ calls[c].header.value = EmptyString)

\* An empty header answered 403 and a header that matches no secret
\* answered 401.
C10_Witness ==
    /\ \E c \in Calls :
          /\ calls[c].header.present
          /\ calls[c].header.value = EmptyString
          /\ calls[c].status = 403
    /\ \E c \in Calls :
          /\ calls[c].header.value = Garbage
          /\ calls[c].status = 401

====
